---- MODULE Spec2Model ----
(***************************************************************************)
(* Model of the weather dashboard (src/app.py): the five warehouse         *)
(* queries, the result cache in front of them, the rain-probability        *)
(* banding and the views of main().                                        *)
(*                                                                         *)
(* Instants are whole hours since an epoch day 0, 00:00 UTC.  A warehouse  *)
(* table is a set of rows; a query result is a sequence of rows.           *)
(***************************************************************************)
EXTENDS Integers, Sequences, FiniteSets, TLC

VARIABLES
    \* ---- the warehouse tables read by the forecast queries
    lstm_weather_24h,        \* hcmut.gold.lstm_weather_24h
    lstm_rain_daily,         \* hcmut.gold.lstm_rain_daily
    fact_vn_weather_hourly,  \* hcmut.gold.fact_vn_weather_hourly
    \* ---- the last query run against them
    qfn, qcity, qdays, qnow, qtz, qres,
    \* ---- the result cache (@st.cache_data) and the warehouse behind it
    clock,              \* seconds on the cache's timer
    cache,              \* key -> stored entry (value, stored_at) or NoEntry
    open_connections,   \* connections acquired and not closed
    fetches,            \* fetch calls made so far
    call,               \* the last fetch call: what it did and returned
    last_fetch,         \* key -> last fetch of the key that returned
    last_load,          \* key -> last fetch of the key that returned from the warehouse
    \* ---- the rain-probability banding
    rain_prob_raw,      \* the stored probability, in units of 1/ProbScale
    gauge_label,        \* the band create_rain_probability_gauge labels it with
    metric_message,     \* the band of the message under the metric in main
    \* ---- one run of main()
    selected_city, data_type, slider_days,   \* the sidebar's inputs
    fetched,            \* what each fetch function returned to main
    fetch_calls,        \* the fetch calls main made, in order
    out,                \* the elements rendered, in order
    \* ---- one call of a view transform on a frame
    transform,          \* the transform called ("" before the call)
    input_frame,        \* the frame as it was fetched and passed in
    caller_frame,       \* the caller's frame, as the call left it
    working_frame,      \* the frame the transform rendered from
    displayed,          \* the values rendered: column (or metric), row, value shown
    transform_raised    \* the call raised

qvars == <<lstm_weather_24h, lstm_rain_daily, fact_vn_weather_hourly,
           qfn, qcity, qdays, qnow, qtz, qres>>

cvars == <<clock, cache, open_connections, fetches, call,
           last_fetch, last_load>>

bvars == <<rain_prob_raw, gauge_label, metric_message>>

vvars == <<selected_city, data_type, slider_days, fetched, fetch_calls, out>>

tvars == <<transform, input_frame, caller_frame, working_frame, displayed,
           transform_raised>>

vars == <<qvars, cvars, bvars, vvars, tvars>>

----------------------------------------------------------------------------
(* Configuration *)

\* CITIES: display name -> warehouse location key
CITIES ==
    [n \in {"Ha Noi", "Ho Chi Minh", "Da Nang"} |->
        CASE n = "Ha Noi"      -> "Ha Noi City"
          [] n = "Ho Chi Minh" -> "Ho Chi Minh City"
          [] n = "Da Nang"     -> "Da Nang City"]

\* VIETNAM_TZ = "Asia/Ho_Chi_Minh": a fixed offset of +7 hours from UTC
VIETNAM_TZ == 7

HoursPerDay == 24

LIMIT_FORECAST_24H == 24
LIMIT_RAIN == 5

----------------------------------------------------------------------------
(* Bounds of the warehouse contents *)

MaxRows == 3                   \* rows stored over the three tables together
MaxBatch == 26                 \* forecast targets of a table loaded whole

Locations      == {"Ha Noi City", "Da Nang City"}   \* ds_location values stored
ModelRuns      == {1, 2}       \* dt_model_run_time values
Temperatures   == {20, 22}     \* nr_predicted_temperature / nr_temperature_2m
ForecastTimes  == {0, 1}       \* dt_forecast_time / dt_date_record (hours)
ForecastDates  == {0, 17, 24}  \* dt_forecast_date (hours): day 0 00:00Z,
                               \* day 0 17:00Z (= day 1 00:00 UTC+7), day 1 00:00Z
QueryTimes     == {0, 1}       \* CURRENT_TIMESTAMP() of a 24h-forecast query
RainQueryTimes == {24, 42}     \* CURRENT_TIMESTAMP() of a rain query: day 1
                               \* 00:00Z and 18:00Z (= day 2 01:00 UTC+7)
SessionTZ      == {0, VIETNAM_TZ} \* the warehouse session's time zone offset,
                                  \* which the code never sets (UTC by default)
QueryDays      == {3}          \* the home view's window

\* A forecast row: target instant, location, model run, predicted value.
ForecastRow(targets, vals) ==
    [target : targets, loc : Locations, run : ModelRuns, val : vals]

\* The rows the tables may hold: every combination for the first location,
\* and first-run rows of one value for the second.
Storable(rows) ==
    {r \in rows : r.loc = "Da Nang City" => r.val = 20}

StorableForecasts ==
    {r \in Storable(ForecastRow(ForecastTimes, Temperatures)) :
        r.loc = "Da Nang City" => r.run = 1}

StorableRainForecasts ==
    {r \in ForecastRow(ForecastDates, {30}) :
        r.loc = "Da Nang City" => (r.run = 1 /\ r.target = 24)}

StorableObservations ==
    {r \in Storable([target : ForecastTimes, loc : Locations, val : Temperatures]) :
        r.loc = "Da Nang City" => r.target = 0}

StoredRows ==
    Cardinality(lstm_weather_24h) + Cardinality(lstm_rain_daily)
        + Cardinality(fact_vn_weather_hourly)

----------------------------------------------------------------------------
(* SQL building blocks *)

KeyOf(r) == <<r.target, r.loc>>

\* Faulty variant, for comparison: the window ordered by dt_model_run_time ASC: the oldest run first
FirstRanked_Ascending(T, k) ==
    {r \in T : KeyOf(r) = k /\ \A q \in T : KeyOf(q) = k => q.run >= r.run}

\* The rows of partition k that ORDER BY dt_model_run_time DESC may rank first.
FirstRanked(T, k) ==
    {r \in T : KeyOf(r) = k /\ \A q \in T : KeyOf(q) = k => q.run <= r.run}

\* row_number() OVER (PARTITION BY target, ds_location
\*                    ORDER BY dt_model_run_time DESC) = 1
\* One row per partition; among rows that tie on the run time the engine is
\* free to number any of them first, so every such choice is a possible result.
\* The sets holding one first-ranked row of T for each partition in keys.
RECURSIVE OnePerPartition(_, _)
OnePerPartition(T, keys) ==
    IF keys = {} THEN {{}}
    ELSE LET k == CHOOSE x \in keys : TRUE
         IN  {D \cup {r} : D \in OnePerPartition(T, keys \ {k}), r \in FirstRanked(T, k)}

LatestRun(T) == OnePerPartition(T, {KeyOf(r) : r \in T})

\* ORDER BY target ASC of rows with distinct targets.
RECURSIVE OrderAsc(_)
OrderAsc(S) ==
    IF S = {} THEN <<>>
    ELSE LET m == CHOOSE r \in S : \A q \in S : r.target <= q.target
         IN  <<m>> \o OrderAsc(S \ {m})

\* Faulty variant, for comparison: the last n rows kept
Limit_Tail(s, n) == IF Len(s) <= n THEN s ELSE SubSeq(s, Len(s) - n + 1, Len(s))

\* LIMIT n
Limit(s, n) == IF Len(s) <= n THEN s ELSE SubSeq(s, 1, n)

\* from_utc_timestamp(ts, 'Asia/Ho_Chi_Minh'): the instant shifted by the offset
from_utc_timestamp(ts, offset) == ts + offset

\* DATE(ts): the calendar day of a timestamp, taken in the session time zone
DATE(ts, tz) == (ts + tz) \div HoursPerDay

\* CURRENT_DATE(): today in the session time zone
CURRENT_DATE(now, tz) == (now + tz) \div HoursPerDay

----------------------------------------------------------------------------
(* The three forecast-derived queries.  Each operator is the set of results *)
(* the warehouse may return for the given table contents.                   *)

Range(f) == {f[x] : x \in DOMAIN f}

\* get_temperature_forecast_24h: the SQL text
Forecast24hRow(r) ==
    [forecast_time |-> r.target, predicted_temperature |-> r.val,
     location |-> r.loc, model_run_time |-> r.run]

latest_forecast(T, city) == LatestRun({r \in T : r.loc = city})

Forecast24hQuery(T, city, now) ==
    { LET s == Limit(OrderAsc({r \in D : r.target >= now}), LIMIT_FORECAST_24H)
      IN  [i \in 1..Len(s) |-> Forecast24hRow(s[i])] :
        D \in latest_forecast(T, city) }

\* get_rain_probability_today: the SQL text
RainRow(r) ==
    [forecast_date |-> r.target, rain_probability |-> r.val,
     location |-> r.loc, model_run_time |-> r.run]

RainDateFilter(r, now, tz) ==
    DATE(from_utc_timestamp(r.target, VIETNAM_TZ), tz) >= CURRENT_DATE(now, tz)

RainQuery(T, city, now, tz) ==
    { LET s == Limit(OrderAsc(D), LIMIT_RAIN)
      IN  [i \in 1..Len(s) |-> RainRow(s[i])] :
        D \in LatestRun({r \in T : r.loc = city /\ RainDateFilter(r, now, tz)}) }

\* get_temperature_comparison: the SQL text
ORDER_BY_date_DESC(S) ==
    LET n == Cardinality(S)
    IN  {s \in [1..n -> S] :
            /\ \A i, j \in 1..n : i # j => s[i] # s[j]
            /\ \A i, j \in 1..n : i < j => s[i].date >= s[j].date}

INNER_JOIN(L, W, city) ==
    { [date |-> p[1].target, predicted_temperature |-> p[1].val,
       actual_temperature |-> p[2].val, location |-> p[2].loc] :
        p \in {x \in L \X W : /\ x[1].target = x[2].target
                              /\ x[1].loc = x[2].loc
                              /\ x[2].loc = city} }

ComparisonQuery(T, W, city, days) ==
    UNION { { Limit(s, days * HoursPerDay) :
                s \in ORDER_BY_date_DESC(INNER_JOIN(L, W, city)) } :
            L \in latest_forecast(T, city) }

----------------------------------------------------------------------------
(* The result cache and the fetch functions behind it *)

\* @st.cache_data(ttl=600)
TTL == 600

MaxClock   == 900        \* the clock stops advancing here
MaxFetches == 3          \* fetch calls in one run
TickSize   == TTL \div 2  \* seconds between two events

FetchFunctions ==
    {"get_daily_weather", "get_hourly_weather", "get_temperature_forecast_24h",
     "get_rain_probability_today", "get_temperature_comparison"}

\* The functions with a days parameter.
HasDays(fn) == fn \in {"get_hourly_weather", "get_temperature_comparison"}

FetchDays == {3, 7}

\* The arguments a function is called with: (function, city, days), days = 0
\* standing for "no such parameter".
\* The calls made are of every function for the first city, and of
\* get_hourly_weather for the second city too.
CacheKeys ==
    {k \in FetchFunctions \X Locations \X ({0} \cup FetchDays) :
        /\ HasDays(k[1]) <=> k[3] # 0
        /\ k[2] = "Da Nang City" => k[1] = "get_hourly_weather"}

NoEntry == [value |-> <<>>, stored_at |-> -1]
NoFetch == [at |-> -1, result |-> <<>>]
NoCall ==
    [key |-> <<>>, at |-> -1, outcome |-> "none", result |-> <<>>,
     connects |-> 0, executes |-> 0, closes |-> 0,
     prev_fetch |-> NoFetch, prev_load |-> NoFetch]

ColdCache ==
    /\ clock = 0
    /\ cache = [k \in CacheKeys |-> NoEntry]
    /\ open_connections = 0
    /\ fetches = 0
    /\ call = NoCall
    /\ last_fetch = [k \in CacheKeys |-> NoFetch]
    /\ last_load = [k \in CacheKeys |-> NoFetch]

\* Faulty variant, for comparison: an entry still served when its age equals the ttl
Fresh_Inclusive(entry, now) ==
    entry # NoEntry /\ now <= entry.stored_at + TTL

\* st.cache_data keeps the entries of a function in a TTL cache: an entry is
\* served while the timer is before stored_at + ttl.
Fresh(entry, now) ==
    entry # NoEntry /\ now < entry.stored_at + TTL

\* Where the warehouse call of a function body may raise.
FailurePoints == {"none", "connect", "execute", "fetchall"}

\* What the warehouse answers a query with: the rows of that query for that
\* city and limit, as the tables are at that time.
WarehouseAnswer(k, now) == <<k[1], k[2], k[3], now>>

\* The body of a fetch function, the same in all five:
\*     connection = get_connection(); cursor = connection.cursor()
\*     cursor.execute(query, parameters=...)
\*     df = cursor.fetchall_arrow().to_pandas()
\*     cursor.close(); connection.close(); return df
\* An exception leaves at the statement that raised it.
FetchBody(k, now, fail) ==
    IF fail = "connect"
    THEN [raised |-> TRUE, result |-> <<>>, connects |-> 0, executes |-> 0, closes |-> 0]
    ELSE IF fail = "execute"
    THEN [raised |-> TRUE, result |-> <<>>, connects |-> 1, executes |-> 1, closes |-> 0]
    ELSE IF fail = "fetchall"
    THEN [raised |-> TRUE, result |-> <<>>, connects |-> 1, executes |-> 1, closes |-> 0]
    ELSE [raised |-> FALSE, result |-> WarehouseAnswer(k, now),
          connects |-> 1, executes |-> 1, closes |-> 1]

\* A call of a cached function with key k.
CachedCall(k) ==
    /\ fetches < MaxFetches
    /\ fetches' = fetches + 1
    /\ IF Fresh(cache[k], clock)
       THEN /\ call' = [key |-> k, at |-> clock, outcome |-> "hit",
                        result |-> cache[k].value,
                        connects |-> 0, executes |-> 0, closes |-> 0,
                        prev_fetch |-> last_fetch[k], prev_load |-> last_load[k]]
            /\ last_fetch' = [last_fetch EXCEPT ![k] =
                                 [at |-> clock, result |-> cache[k].value]]
            /\ UNCHANGED <<cache, open_connections, last_load>>
       ELSE \E fail \in FailurePoints :
            LET b == FetchBody(k, clock, fail)
            IN  /\ call' = [key |-> k, at |-> clock,
                            outcome |-> IF b.raised THEN "raised" ELSE "miss",
                            result |-> b.result,
                            connects |-> b.connects, executes |-> b.executes,
                            closes |-> b.closes,
                            prev_fetch |-> last_fetch[k], prev_load |-> last_load[k]]
                /\ open_connections' = open_connections + b.connects - b.closes
                /\ IF b.raised
                   THEN UNCHANGED <<cache, last_fetch, last_load>>
                   ELSE /\ cache' = [cache EXCEPT ![k] =
                                        [value |-> b.result, stored_at |-> clock]]
                        /\ last_fetch' = [last_fetch EXCEPT ![k] =
                                             [at |-> clock, result |-> b.result]]
                        /\ last_load' = [last_load EXCEPT ![k] =
                                            [at |-> clock, result |-> b.result]]
    /\ UNCHANGED <<clock, qvars, bvars, vvars, tvars>>

get_daily_weather ==
    \E k \in CacheKeys : k[1] = "get_daily_weather" /\ CachedCall(k)

get_hourly_weather ==
    \E k \in CacheKeys : k[1] = "get_hourly_weather" /\ CachedCall(k)

get_temperature_forecast_24h ==
    \E k \in CacheKeys : k[1] = "get_temperature_forecast_24h" /\ CachedCall(k)

get_rain_probability_today ==
    \E k \in CacheKeys : k[1] = "get_rain_probability_today" /\ CachedCall(k)

get_temperature_comparison ==
    \E k \in CacheKeys : k[1] = "get_temperature_comparison" /\ CachedCall(k)

\* Time passes between two calls.
Tick ==
    /\ clock + TickSize <= MaxClock
    /\ clock' = clock + TickSize
    /\ UNCHANGED <<cache, open_connections, fetches, call,
                   last_fetch, last_load, qvars, bvars, vvars, tvars>>

----------------------------------------------------------------------------
(* Rain-probability banding *)

\* The stored probability is a fraction of 1; the model takes the fractions
\* n / ProbScale, n = 0 .. ProbScale.
ProbScale == 1000

\* rain_prob = rain_prob_raw * 100, compared with a percentage:
\* n / ProbScale * 100 < percent.
ScaledBelow(n, percent) == n * 100 < percent * ProbScale

\* Faulty variant, for comparison: the first boundary taken inclusive: rain_prob <= 30
GaugeLabel_Inclusive30(n) ==
    IF n * 100 <= 30 * ProbScale THEN "It Kha Nang Mua"
    ELSE IF ScaledBelow(n, 50) THEN "Co The Mua"
    ELSE IF ScaledBelow(n, 70) THEN "Kha Nang Mua Cao"
    ELSE "Rat Co Kha Nang Mua"

\* create_rain_probability_gauge: label
GaugeLabel(n) ==
    IF ScaledBelow(n, 30) THEN "It Kha Nang Mua"
    ELSE IF ScaledBelow(n, 50) THEN "Co The Mua"
    ELSE IF ScaledBelow(n, 70) THEN "Kha Nang Mua Cao"
    ELSE "Rat Co Kha Nang Mua"

\* main, rain-probability view: the message under the metric, as (kind, text)
RainMessage(n) ==
    IF ScaledBelow(n, 30) THEN <<"info", "It kha nang mua - Thoi tiet kho rao">>
    ELSE IF ScaledBelow(n, 50) THEN <<"warning", "Co the mua - Nen mang theo o">>
    ELSE IF ScaledBelow(n, 70) THEN <<"warning", "Kha nang mua cao - Nen mang theo o">>
    ELSE <<"error", "Rat co kha nang mua - Nho mang theo o!">>

NoBanding ==
    /\ rain_prob_raw = 0
    /\ gauge_label = ""
    /\ metric_message = <<"", "">>

----------------------------------------------------------------------------
(* The views: frames, rendered elements and the chart and card functions.   *)
(* Texts are written without their diacritics and emoji.                    *)

\* A rendered element: st.header, st.metric, st.plotly_chart, st.dataframe,
\* st.info, st.warning, st.error, ...  A metric carries the aggregate it shows
\* (agg, col), a chart the column it plots.
El(kind, text) == [kind |-> kind, text |-> text, agg |-> "", col |-> ""]
Metric(text, agg, col) == [kind |-> "metric", text |-> text, agg |-> agg, col |-> col]
Chart(text, col) == [kind |-> "chart", text |-> text, agg |-> "", col |-> col]

\* What a fetch function gave main: it raised, or returned a frame of n rows
\* with the columns cols; a rain frame has the probability of its first row
\* (in units of 1/ProbScale) and may hold a NULL model_run_time there.
Raised    == [status |-> "raised", n |-> 0, cols |-> {}, prob |-> 0, run_time_null |-> FALSE]
NotCalled == [status |-> "not called", n |-> 0, cols |-> {}, prob |-> 0, run_time_null |-> FALSE]
Frame(n, cols, prob, null) ==
    [status |-> "returned", n |-> n, cols |-> cols, prob |-> prob, run_time_null |-> null]

empty(df) == df.n = 0

\* The columns the SELECT lists of the three forecast queries name.
ForecastColumns == {"forecast_time", "predicted_temperature", "location", "model_run_time"}
RainColumns ==
    {"forecast_date", "rain_probability", "rain_label", "location", "model_run_time"}
ComparisonColumns == {"date", "predicted_temperature", "actual_temperature", "location"}

\* SELECT * of the observation tables: the columns the query itself names
\* are there, any of the metric columns the views look for may be.
KeyColumns == {"ds_location", "dt_date_record"}
DailyMetricColumns ==
    {"nr_temperature_2m_mean", "nr_temperature_2m", "nr_temperature_2m_max",
     "nr_temperature_2m_min", "nr_rain_sum", "nr_precipitation_sum",
     "nr_relative_humidity_2m_mean"}
HourlyMetricColumns == {"nr_temperature_2m", "nr_humidity", "nr_wind_speed"}

\* Faulty variant, for comparison: the last alias present wins
FirstPresent_Last(aliases, cols) ==
    LET present == {i \in 1..Len(aliases) : aliases[i] \in cols}
    IN  IF present = {} THEN "None"
        ELSE aliases[CHOOSE i \in present : \A j \in present : j <= i]

\* for c in [...]: if c in df.columns: col = c; break        (None when absent)
FirstPresent(aliases, cols) ==
    LET present == {i \in 1..Len(aliases) : aliases[i] \in cols}
    IN  IF present = {} THEN "None"
        ELSE aliases[CHOOSE i \in present : \A j \in present : i <= j]

create_temperature_forecast_chart(df) ==
    IF empty(df) THEN <<El("warning", "Khong co du lieu du doan.")>>
    ELSE <<Chart("Du Doan Nhiet Do 24 Gio Tiep Theo", "predicted_temperature")>>

create_rain_probability_gauge(df) ==
    IF empty(df) THEN <<El("warning", "Khong co du lieu xac suat mua.")>>
    ELSE <<El("gauge", GaugeLabel(df.prob))>>
         \o (IF df.n > 1
             THEN <<El("subheader", "Chi Tiet Du Doan Mua"), El("table", "display_df")>>
             ELSE <<>>)

create_comparison_chart(df) ==
    IF empty(df) \/ "predicted_temperature" \notin df.cols
    THEN <<El("warning", "Khong co du lieu de so sanh.")>>
    ELSE <<Chart("So Sanh Nhiet Do Du Doan vs Thuc Te", "predicted_temperature")>>

\* create_weather_metrics_cards, data_type == "daily"
DailyCards(df) ==
    LET temp_mean_col == FirstPresent(<<"nr_temperature_2m_mean", "nr_temperature_2m">>, df.cols)
        temp_max_col  == IF "nr_temperature_2m_max" \in df.cols
                         THEN "nr_temperature_2m_max" ELSE temp_mean_col
        rain_col      == FirstPresent(<<"nr_rain_sum", "nr_precipitation_sum">>, df.cols)
        humidity_col  == IF "nr_relative_humidity_2m_mean" \in df.cols
                         THEN "nr_relative_humidity_2m_mean" ELSE "None"
    IN  << IF temp_mean_col # "None"
           THEN Metric("Nhiet do trung binh", "mean", temp_mean_col)
           ELSE Metric("Nhiet do trung binh", "N/A", ""),
           IF temp_max_col # "None"
           THEN Metric("Nhiet do cao nhat", "max", temp_max_col)
           ELSE Metric("Nhiet do cao nhat", "N/A", ""),
           IF rain_col # "None"
           THEN Metric("Tong luong mua", "sum", rain_col)
           ELSE Metric("Tong luong mua", "N/A", ""),
           IF humidity_col # "None"
           THEN Metric("Do am trung binh", "mean", humidity_col)
           ELSE Metric("So ngay", "len", "") >>

\* create_weather_metrics_cards, data_type == "hourly"
HourlyCards(df) ==
    (IF "nr_temperature_2m" \in df.cols
     THEN <<Metric("Nhiet Do TB", "mean", "nr_temperature_2m")>> ELSE <<>>)
    \o (IF "nr_humidity" \in df.cols
        THEN <<Metric("Do Am TB", "mean", "nr_humidity")>> ELSE <<>>)
    \o (IF "nr_wind_speed" \in df.cols
        THEN <<Metric("Toc Do Gio TB", "mean", "nr_wind_speed")>> ELSE <<>>)
    \o <<Metric("So Gio", "len", "")>>

create_weather_metrics_cards(df, type) ==
    IF empty(df) THEN <<>>
    ELSE IF type = "daily" THEN DailyCards(df)
    ELSE IF type = "hourly" THEN HourlyCards(df)
    ELSE <<>>

----------------------------------------------------------------------------
(* main(): the sidebar's inputs, then one of six views inside one try block. *)
(* A view is a sequence of fetch steps: the elements rendered before the     *)
(* fetch, the fetch call, and the elements rendered from what it returned.   *)
(* Streamlit renders an element when its call is made, so the elements of    *)
(* the steps already done stay when a later fetch raises.                    *)

SLIDER_MIN   == 1
SLIDER_MAX   == 30
DEFAULT_DAYS == 7
HOME_COMPARISON_DAYS == 3

DataTypes == {"Trang Chu", "Thoi Tiet Hang Ngay", "Thoi Tiet Hang Gio",
              "Du Doan Nhiet Do 24h", "Xac Suat Mua", "So Sanh Du Doan"}

\* The frames a fetch may return to a view.
ViewProbabilities == {300, 700}

ForecastOutcomes ==
    {Raised} \cup {Frame(n, ForecastColumns, 0, FALSE) : n \in {0, 1}}
RainOutcomes ==
    {Raised, Frame(0, RainColumns, 0, FALSE)}
        \cup {Frame(n, RainColumns, pr, null) :
                n \in {1, 2}, pr \in ViewProbabilities, null \in BOOLEAN}
DailyOutcomes ==
    {Raised, Frame(0, KeyColumns, 0, FALSE)}
        \cup {Frame(1, KeyColumns \cup c, 0, FALSE) : c \in SUBSET DailyMetricColumns}
HourlyOutcomes ==
    {Raised, Frame(0, KeyColumns, 0, FALSE)}
        \cup {Frame(1, KeyColumns \cup c, 0, FALSE) : c \in SUBSET HourlyMetricColumns}
ComparisonOutcomes ==
    {Raised} \cup {Frame(n, ComparisonColumns, 0, FALSE) : n \in {0, 1}}

\* Faulty variant, for comparison: the display name passed on as it is
db_city_untranslated(selected) == selected

\* db_city = CITIES.get(selected_city, selected_city)
db_city(selected) ==
    IF selected \in DOMAIN CITIES THEN CITIES[selected] ELSE selected

Step(pre, fn, d, outcome, post) ==
    [pre |-> pre, fn |-> fn, days |-> d, outcome |-> outcome, post |-> post]

Rule == El("markdown", "---")

HomeView(f, r, d, c) ==
    << Step(<<El("header", "Trang Chu"), El("subheader", "Du Doan Nhiet Do 24h")>>,
            "get_temperature_forecast_24h", 0, f,
            IF ~empty(f) THEN create_temperature_forecast_chart(f)
            ELSE <<El("info", "Dang tai du lieu du doan...")>>),
       Step(<<El("subheader", "Xac Suat Mua Hom Nay")>>,
            "get_rain_probability_today", 0, r,
            IF ~empty(r) THEN create_rain_probability_gauge(r)
            ELSE <<El("info", "Dang tai du lieu xac suat mua...")>>),
       Step(<<Rule, El("subheader", "Thong Tin Tong Quan")>>,
            "get_daily_weather", 0, d,
            IF ~empty(d) THEN create_weather_metrics_cards(d, "daily") ELSE <<>>),
       Step(<<Rule, El("subheader", "So Sanh Du Doan vs Thuc Te")>>,
            "get_temperature_comparison", HOME_COMPARISON_DAYS, c,
            IF ~empty(c) THEN create_comparison_chart(c) ELSE <<>>) >>

DailyView(df) ==
    << Step(<<El("header", "Thoi Tiet Hang Ngay")>>, "get_daily_weather", 0, df,
            IF ~empty(df)
            THEN LET temp_col ==
                        FirstPresent(<<"nr_temperature_2m_mean", "nr_temperature_2m",
                                       "nr_temperature_2m_max", "nr_temperature_2m_min">>,
                                     df.cols)
                 IN  create_weather_metrics_cards(df, "daily")
                     \o <<Rule>>
                     \o (IF temp_col # "None"
                         THEN <<Chart("Nhiet Do Hang Ngay", temp_col)>>
                         ELSE <<El("warning",
                                   "Khong tim thay cot nhiet do phu hop trong du lieu hang ngay.")>>)
                     \o <<Rule, El("subheader", "Bang Du Lieu"), El("table", "df")>>
            ELSE <<El("warning", "Khong co du lieu cho thanh pho nay.")>>) >>

HourlyView(df, d) ==
    << Step(<<El("header", "Thoi Tiet Hang Gio")>>, "get_hourly_weather", d, df,
            IF ~empty(df)
            THEN create_weather_metrics_cards(df, "hourly")
                 \o <<Rule>>
                 \o (IF "nr_temperature_2m" \in df.cols /\ "dt_date_record" \in df.cols
                     THEN <<Chart("Nhiet Do Theo Gio (UTC+7, 7 Ngay Gan Nhat)",
                                  "nr_temperature_2m")>>
                     ELSE <<>>)
                 \o <<Rule, El("subheader", "Bang Du Lieu"), El("table", "df.head(100)")>>
            ELSE <<El("warning", "Khong co du lieu cho thanh pho nay.")>>) >>

Forecast24hView(df) ==
    << Step(<<El("header", "Du Doan Nhiet Do 24 Gio")>>,
            "get_temperature_forecast_24h", 0, df,
            IF ~empty(df)
            THEN <<Metric("Nhiet Do TB", "mean", "predicted_temperature"),
                   Metric("Cao Nhat", "max", "predicted_temperature"),
                   Metric("Thap Nhat", "min", "predicted_temperature"),
                   Rule>>
                 \o create_temperature_forecast_chart(df)
                 \o <<Rule, El("subheader", "Chi Tiet Du Doan"), El("table", "df")>>
            ELSE <<El("warning", "Khong co du lieu du doan cho thanh pho nay.")>>) >>

\* The inner try of the rain view: the detail lines, or its own error message.
RainDetail(df) ==
    IF df.run_time_null
    THEN <<El("error", "Loi xu ly du lieu chi tiet")>>
    ELSE <<El("write", "Ngay du doan"), El("write", "Thanh pho"),
           El("write", "Xac suat mua"), El("write", "Thoi gian model chay")>>
         \o (IF "rain_label" \in df.cols THEN <<El("write", "Nhan du doan")>> ELSE <<>>)

RainView(df) ==
    << Step(<<El("header", "Xac Suat Mua")>>, "get_rain_probability_today", 0, df,
            IF ~empty(df)
            THEN <<Metric("Xac Suat Mua", "first", "rain_probability"),
                   El(RainMessage(df.prob)[1], RainMessage(df.prob)[2]),
                   Rule>>
                 \o create_rain_probability_gauge(df)
                 \o <<Rule, El("subheader", "Chi Tiet")>>
                 \o RainDetail(df)
            ELSE <<El("warning", "Khong co du lieu xac suat mua cho ngay hom nay.")>>) >>

ComparisonView(df, d) ==
    << Step(<<El("header", "So Sanh Du Doan vs Thuc Te")>>,
            "get_temperature_comparison", d, df,
            IF ~empty(df)
            THEN (IF "predicted_temperature" \in df.cols /\ "actual_temperature" \in df.cols
                  THEN <<Metric("So Diem Du Lieu", "len", ""),
                         Metric("MAE (Sai So Trung Binh)", "mae", "predicted_temperature"),
                         Metric("RMSE", "rmse", "predicted_temperature")>>
                  ELSE <<>>)
                 \o <<Rule>>
                 \o create_comparison_chart(df)
                 \o <<Rule, El("subheader", "Bang Du Lieu So Sanh"), El("table", "df")>>
            ELSE <<El("warning", "Khong co du lieu de so sanh cho thanh pho nay.")>>) >>

\* The try block: the steps in order, up to the first fetch that raises.
RECURSIVE Render(_)
Render(steps) ==
    IF steps = <<>> THEN [out |-> <<>>, raised |-> FALSE]
    ELSE LET h == Head(steps)
         IN  IF h.outcome.status = "raised"
             THEN [out |-> h.pre, raised |-> TRUE]
             ELSE LET rest == Render(Tail(steps))
                  IN  [out |-> h.pre \o h.post \o rest.out, raised |-> rest.raised]

\* The fetch calls made: those of the steps reached.
RECURSIVE CallsOf(_, _)
CallsOf(steps, city) ==
    IF steps = <<>> THEN <<>>
    ELSE LET h == Head(steps)
             c == [fn |-> h.fn, city |-> city, days |-> h.days]
         IN  IF h.outcome.status = "raised" THEN <<c>>
             ELSE <<c>> \o CallsOf(Tail(steps), city)

\* What each function gave main, for the steps reached.
RECURSIVE FetchedOf(_)
FetchedOf(steps) ==
    IF steps = <<>> THEN [fn \in FetchFunctions |-> NotCalled]
    ELSE LET h == Head(steps)
         IN  IF h.outcome.status = "raised"
             THEN [fn \in FetchFunctions |-> IF fn = h.fn THEN h.outcome ELSE NotCalled]
             ELSE [FetchedOf(Tail(steps)) EXCEPT ![h.fn] = h.outcome]

\* except Exception as e: st.error(...); st.exception(e)
ExceptHandler == <<El("error", "Co loi xay ra"), El("exception", "e")>>

NotRun ==
    /\ selected_city = "" /\ data_type = "" /\ slider_days = 0
    /\ fetched = [fn \in FetchFunctions |-> NotCalled]
    /\ fetch_calls = <<>> /\ out = <<>>

\* One run of main() with the given inputs and view, on a blank page.
Main(selected, type, d, steps) ==
    /\ selected_city' = selected
    /\ data_type' = type
    /\ slider_days' = d
    /\ LET r == Render(steps)
       IN  out' = <<El("title", "Weather Forecast Dashboard - Viet Nam"),
                    El("markdown", "Dashboard theo doi va du doan thoi tiet"), Rule>>
                  \o r.out
                  \o (IF r.raised THEN ExceptHandler ELSE <<>>)
    /\ fetch_calls' = CallsOf(steps, db_city(selected))
    /\ fetched' = FetchedOf(steps)
    /\ UNCHANGED <<qvars, cvars, bvars, tvars>>

Slider == SLIDER_MIN..SLIDER_MAX

MainHome ==
    /\ data_type = ""
    /\ \E selected \in DOMAIN CITIES, f \in ForecastOutcomes, r \in RainOutcomes,
          d \in DailyOutcomes, c \in ComparisonOutcomes :
           Main(selected, "Trang Chu", DEFAULT_DAYS, HomeView(f, r, d, c))

MainDaily ==
    /\ data_type = ""
    /\ \E selected \in DOMAIN CITIES, d \in Slider, df \in DailyOutcomes :
           Main(selected, "Thoi Tiet Hang Ngay", d, DailyView(df))

MainHourly ==
    /\ data_type = ""
    /\ \E selected \in DOMAIN CITIES, d \in Slider, df \in HourlyOutcomes :
           Main(selected, "Thoi Tiet Hang Gio", d, HourlyView(df, d))

MainForecast24h ==
    /\ data_type = ""
    /\ \E selected \in DOMAIN CITIES, df \in ForecastOutcomes :
           Main(selected, "Du Doan Nhiet Do 24h", DEFAULT_DAYS, Forecast24hView(df))

MainRain ==
    /\ data_type = ""
    /\ \E selected \in DOMAIN CITIES, df \in RainOutcomes :
           Main(selected, "Xac Suat Mua", DEFAULT_DAYS, RainView(df))

MainComparison ==
    /\ data_type = ""
    /\ \E selected \in DOMAIN CITIES, d \in Slider, df \in ComparisonOutcomes :
           Main(selected, "So Sanh Du Doan", d, ComparisonView(df, d))

----------------------------------------------------------------------------
(* The view transforms on frames: timestamp normalisation to UTC+7 and      *)
(* percentage scaling.  A frame is a function from column names to columns; *)
(* a column has a dtype and one cell for each row.  A cell holding a time   *)
(* has the wall-clock hour it reads (val) and the zone it names, <<>> if it *)
(* names none.                                                              *)

Cell(form, val, zone) == [form |-> form, val |-> val, zone |-> zone]

Missing              == Cell("missing", 0, <<>>)        \* None, NaT, NaN
Garbage              == Cell("garbage", 0, <<>>)        \* a string that is no timestamp
Text(wall, zone)     == Cell("text", wall, zone)        \* a timestamp written out
Timestamp(wall, zone) == Cell("timestamp", wall, zone)  \* pd.Timestamp
Number(n)            == Cell("number", n, <<>>)
String               == Cell("string", 0, <<>>)

Column(dtype, cells) == [dtype |-> dtype, cells |-> cells]

OBJECT    == "object"
NAIVE     == "datetime64[ns]"
AWARE_UTC == "datetime64[ns, UTC]"
AWARE_VN  == "datetime64[ns, Asia/Ho_Chi_Minh]"
FLOAT     == "float64"

\* The offset of the zone a cell names, UTC when it names none.
ZoneOf(c) == IF c.zone = <<>> THEN 0 ELSE c.zone[1]

\* pd.api.types.is_datetime64_any_dtype(col)
is_datetime64_any_dtype(col) == col.dtype \in {NAIVE, AWARE_UTC, AWARE_VN}

\* pd.to_datetime(x, utc=True) of one value: a time that names no zone is
\* taken as UTC, one that names a zone is converted to UTC; None and NaT stay
\* missing; a string that is no timestamp cannot be parsed (it stays Garbage).
ParseUTC(c) ==
    IF c.form \in {"text", "timestamp"}
    THEN Timestamp(c.val - ZoneOf(c), <<0>>)
    ELSE c

\* pd.to_datetime(col, utc=True) raises on a string that is no timestamp
to_datetime_raises(col) == \E i \in 1..Len(col.cells) : col.cells[i].form = "garbage"

\* pd.to_datetime(col, utc=True, errors="coerce"), and without errors= where
\* it does not raise
to_datetime(col) ==
    Column(AWARE_UTC,
           [i \in 1..Len(col.cells) |->
               IF col.cells[i].form = "garbage" THEN Missing ELSE ParseUTC(col.cells[i])])

\* col.dt.tz_localize("UTC")
tz_localize(col) ==
    Column(AWARE_UTC,
           [i \in 1..Len(col.cells) |->
               IF col.cells[i].form = "timestamp"
               THEN Timestamp(col.cells[i].val, <<0>>) ELSE col.cells[i]])

\* ts.tz_convert(VIETNAM_TZ): the same instant, read on the clock of UTC+7
tz_convert_cell(c) ==
    IF c.form = "timestamp"
    THEN Timestamp(c.val - ZoneOf(c) + VIETNAM_TZ, <<VIETNAM_TZ>>) ELSE c

\* col.dt.tz_convert(VIETNAM_TZ)
tz_convert(col) ==
    Column(AWARE_VN, [i \in 1..Len(col.cells) |-> tz_convert_cell(col.cells[i])])

\* strftime('%d-%m-%Y %H:%M'): the wall clock written out, the zone dropped.
\* On a column a missing value stays missing; on the scalar NaT it raises.
strftime_cell(c) == IF c.form = "timestamp" THEN Text(c.val, <<>>) ELSE Missing

strftime(col) ==
    Column(OBJECT, [i \in 1..Len(col.cells) |-> strftime_cell(col.cells[i])])

\* df[name] = col
WithColumn(df, name, col) ==
    [c \in DOMAIN df \cup {name} |-> IF c = name THEN col ELSE df[c]]

\* len(df): the rows of any of its columns
RowsOf(df) == Len(df[CHOOSE c \in DOMAIN df : TRUE].cells)

\* The normalisation the chart functions and the daily and hourly views share:
\*   if not is_datetime64_any_dtype(df[col]): df[col] = pd.to_datetime(df[col], utc=True, errors="coerce")
\*   if df[col].dt.tz is None:                df[col] = df[col].dt.tz_localize("UTC")
\*   df[new] = df[col].dt.tz_convert(VIETNAM_TZ)
\* on df, which the caller has copied or not.
NormalizeTime(df, col, new) ==
    LET parsed    == IF ~is_datetime64_any_dtype(df[col])
                     THEN WithColumn(df, col, to_datetime(df[col])) ELSE df
        localized == IF parsed[col].dtype = NAIVE
                     THEN WithColumn(parsed, col, tz_localize(parsed[col])) ELSE parsed
    IN  WithColumn(localized, new, tz_convert(localized[col]))

\* What is shown of column col: each row with its value.
ShownColumn(col, column) ==
    [i \in 1..Len(column.cells) |-> [col |-> col, row |-> i, shown |-> column.cells[i]]]

\* The outcome of a transform.
Outcome(caller, working, shown, raised) ==
    [caller |-> caller, working |-> working, displayed |-> shown, raised |-> raised]

\* df.sort_values(by the value shown): ascending, missing values last
Before(a, b) ==
    /\ a.shown.form = "timestamp"
    /\ (b.shown.form # "timestamp" \/ a.shown.val < b.shown.val)

RECURSIVE sort_values(_)
sort_values(s) ==
    IF Len(s) <= 1 THEN s
    ELSE LET pivot == s[(Len(s) + 1) \div 2]
             lower(e) == Before(e, pivot)
             equal(e) == ~Before(e, pivot) /\ ~Before(pivot, e)
             upper(e) == Before(pivot, e)
         IN  sort_values(SelectSeq(s, lower)) \o SelectSeq(s, equal)
               \o sort_values(SelectSeq(s, upper))

\* df.head(n)
head(s, n) == IF Len(s) <= n THEN s ELSE SubSeq(s, 1, n)

CHART_HEAD == 168

\* (x * 100).round(2).astype(str) + '%': the percentage written out, in
\* hundredths of a percent
PercentColumn(col) ==
    Column(OBJECT,
           [i \in 1..Len(col.cells) |->
               Text((col.cells[i].val * 10000 + ProbScale \div 2) \div ProbScale, <<>>)])

\* create_temperature_forecast_chart and create_comparison_chart: the frame
\* is copied, normalised, and the converted column plotted.
ChartTransform(df, col, new) ==
    IF RowsOf(df) = 0 THEN Outcome(df, df, <<>>, FALSE)
    ELSE LET w == NormalizeTime(df, col, new)
         IN  Outcome(df, w, ShownColumn(col, w[new]), FALSE)

\* main, daily view: the same on dt_date_record, plotted in ascending order
DailyViewTransform(df) ==
    IF RowsOf(df) = 0 THEN Outcome(df, df, <<>>, FALSE)
    ELSE LET w == NormalizeTime(df, "dt_date_record", "dt_date_record_vn")
         IN  Outcome(df, w,
                     sort_values(ShownColumn("dt_date_record", w["dt_date_record_vn"])),
                     FALSE)

\* main, hourly view: the same, and the first 168 rows of the sorted frame plotted
HourlyViewTransform(df) ==
    IF RowsOf(df) = 0 THEN Outcome(df, df, <<>>, FALSE)
    ELSE LET w == NormalizeTime(df, "dt_date_record", "dt_date_record_vn")
         IN  Outcome(df, w,
                     head(sort_values(ShownColumn("dt_date_record", w["dt_date_record_vn"])),
                          CHART_HEAD),
                     FALSE)

\* A scalar pd.to_datetime(x, utc=True).tz_convert(VIETNAM_TZ).strftime(...):
\* it raises on a string that is no timestamp and on a missing value.
ScalarRaises(c) == c.form \in {"garbage", "missing"}
ScalarShown(c)  == strftime_cell(tz_convert_cell(ParseUTC(c)))

\* create_rain_probability_gauge: the first row's date in the title; with
\* more than one row, a table made from a copy of the frame.
GaugeTransform(df) ==
    IF RowsOf(df) = 0 THEN Outcome(df, df, <<>>, FALSE)
    ELSE
      LET first == df["forecast_date"].cells[1]
          title == <<[col |-> "forecast_date", row |-> 1, shown |-> ScalarShown(first)]>>
      IN  IF ScalarRaises(first) THEN Outcome(df, df, <<>>, TRUE)
          ELSE IF RowsOf(df) <= 1 THEN Outcome(df, df, title, FALSE)
          ELSE IF to_datetime_raises(df["forecast_date"]) THEN Outcome(df, df, title, TRUE)
          ELSE
            LET d1 == WithColumn(df, "forecast_date", to_datetime(df["forecast_date"]))
                d2 == WithColumn(d1, "forecast_date_vn",
                                 strftime(tz_convert(d1["forecast_date"])))
                d3 == WithColumn(d2, "rain_probability",
                                 PercentColumn(d2["rain_probability"]))
                display_df ==
                    [c \in {"Thoi Gian Du Doan", "Xac Suat Mua", "Nhan", "Dia Diem"} |->
                        CASE c = "Thoi Gian Du Doan" -> d3["forecast_date_vn"]
                          [] c = "Xac Suat Mua"      -> d3["rain_probability"]
                          [] c = "Nhan"              -> d3["rain_label"]
                          [] OTHER                   -> d3["location"]]
            IN  Outcome(df, display_df,
                        title \o ShownColumn("forecast_date", display_df["Thoi Gian Du Doan"]),
                        FALSE)

\* create_multi_city_comparison, for one city of cities_data: the frame is
\* copied only where its date column is not of a datetime dtype.
MultiCityTransform(df) ==
    IF RowsOf(df) = 0 THEN Outcome(df, df, <<>>, FALSE)
    ELSE
      LET copied    == ~is_datetime64_any_dtype(df["date"])
          parsed    == IF copied THEN WithColumn(df, "date", to_datetime(df["date"])) ELSE df
          localized == IF parsed["date"].dtype = NAIVE
                       THEN WithColumn(parsed, "date", tz_localize(parsed["date"])) ELSE parsed
          time_x    == tz_convert(localized["date"])
      IN  Outcome(IF copied THEN df ELSE localized, localized,
                  ShownColumn("date", time_x), FALSE)

\* main, rain view, the detail lines inside their own try: the first row's
\* forecast date and model run time.
RainDetailTransform(df) ==
    IF RowsOf(df) = 0 THEN Outcome(df, df, <<>>, FALSE)
    ELSE
      LET fd == df["forecast_date"].cells[1]
          mr == df["model_run_time"].cells[1]
      IN  IF ScalarRaises(fd) \/ ScalarRaises(mr) THEN Outcome(df, df, <<>>, TRUE)
          ELSE Outcome(df, df,
                       <<[col |-> "forecast_date", row |-> 1, shown |-> ScalarShown(fd)],
                         [col |-> "model_run_time", row |-> 1, shown |-> ScalarShown(mr)]>>,
                       FALSE)

\* A metric shown: its name in place of the column, the number as formatted.
ShownMetric(name, n) == [col |-> name, row |-> 0, shown |-> Number(n)]

Abs(x) == IF x < 0 THEN -x ELSE x

RECURSIVE SumOf(_)
SumOf(s) == IF s = <<>> THEN 0 ELSE Head(s) + SumOf(Tail(s))

\* df['predicted_temperature'] - df['actual_temperature']
Errors(df) ==
    [i \in 1..RowsOf(df) |->
        df["predicted_temperature"].cells[i].val - df["actual_temperature"].cells[i].val]

\* s.mean(): the sum over the number of rows, as a fraction
Mean(s) == [num |-> SumOf(s), den |-> Len(s)]

\* Faulty variant, for comparison: the absolute value of the mean error
MeanAbsError_AbsOfMean(df) ==
    [num |-> Abs(SumOf(Errors(df))), den |-> RowsOf(df)]

\* abs(predicted - actual).mean()
MeanAbsError(df) ==
    Mean([i \in 1..RowsOf(df) |-> Abs(Errors(df)[i])])

\* ((predicted - actual)**2).mean()
MeanSquaredError(df) ==
    Mean([i \in 1..RowsOf(df) |-> Errors(df)[i] * Errors(df)[i]])

MaxShown == 1000   \* the largest formatted value, in hundredths

\* f"{x:.2f}" of a fraction: the nearest hundredth
Format2f(x) == (200 * x.num + x.den) \div (2 * x.den)

\* f"{x ** 0.5:.2f}" of a fraction: the hundredth nearest to its square root
FormatRoot2f(x) ==
    CHOOSE r \in 0..MaxShown :
        /\ (r = 0 \/ (2 * r - 1) * (2 * r - 1) * x.den <= 40000 * x.num)
        /\ 40000 * x.num < (2 * r + 1) * (2 * r + 1) * x.den

\* main, comparison view: the three accuracy metrics, or the warning of an
\* empty result.
ComparisonMetrics(df) ==
    IF RowsOf(df) = 0
    THEN Outcome(df, df, <<[col |-> "warning", row |-> 0, shown |-> String]>>, FALSE)
    ELSE IF {"predicted_temperature", "actual_temperature"} \subseteq DOMAIN df
    THEN Outcome(df, df,
                 <<ShownMetric("So Diem Du Lieu", RowsOf(df)),
                   ShownMetric("MAE", Format2f(MeanAbsError(df))),
                   ShownMetric("RMSE", FormatRoot2f(MeanSquaredError(df)))>>,
                 FALSE)
    ELSE Outcome(df, df, <<>>, FALSE)

\* The frames passed to the transforms.
MaxFrameRows == 2

ObjectCells == {Text(0, <<>>), Text(20, <<>>), Garbage, Missing}
TaggedCells == {Text(7, <<VIETNAM_TZ>>)}
NaiveCells  == {Timestamp(0, <<>>), Timestamp(20, <<>>), Missing}
AwareCells  == {Timestamp(0, <<0>>), Timestamp(20, <<0>>), Missing}

TimeColumns(n) ==
    {Column(OBJECT, c) : c \in [1..n -> ObjectCells]}
      \cup {Column(OBJECT, c) : c \in [1..n -> TaggedCells]}
      \cup {Column(NAIVE, c) : c \in [1..n -> NaiveCells]}
      \cup {Column(AWARE_UTC, c) : c \in [1..n -> AwareCells]}

RunTimeColumns(n) ==
    { Column(AWARE_UTC, [i \in 1..n |-> Timestamp(0, <<0>>)]),
      Column(AWARE_UTC, [i \in 1..n |-> IF i = 1 THEN Missing ELSE Timestamp(0, <<0>>)]),
      Column(OBJECT, [i \in 1..n |-> IF i = 1 THEN Garbage ELSE Text(0, <<>>)]) }

Values(n, v) == Column(FLOAT, [i \in 1..n |-> Number(v)])

ForecastFrames ==
    UNION {{[forecast_time |-> tc, predicted_temperature |-> Values(n, 20)] :
              tc \in TimeColumns(n)} : n \in 0..MaxFrameRows}

RainFrames ==
    UNION {{[forecast_date |-> tc,
             rain_probability |-> Column(FLOAT, [i \in 1..n |-> Number(IF i = 1 THEN 300 ELSE 700)]),
             rain_label |-> Values(n, 0),
             location |-> Column(OBJECT, [i \in 1..n |-> String]),
             model_run_time |-> rc] :
              tc \in TimeColumns(n), rc \in RunTimeColumns(n)} : n \in 0..MaxFrameRows}

NumberColumns(n, vals) == {Column(FLOAT, c) : c \in [1..n -> {Number(v) : v \in vals}]}

ComparisonFrames ==
    UNION {{[date |-> tc, predicted_temperature |-> pc, actual_temperature |-> ac] :
              tc \in TimeColumns(n),
              pc \in NumberColumns(n, {20, 25}), ac \in NumberColumns(n, {22, 24})} :
           n \in 0..MaxFrameRows}

ObservationFrames ==
    UNION {{[dt_date_record |-> tc, nr_temperature_2m |-> Values(n, 20)] :
              tc \in TimeColumns(n)} : n \in 0..MaxFrameRows}

CityFrames ==
    UNION {{[date |-> tc, nr_temperature_2m |-> Values(n, 20)] :
              tc \in TimeColumns(n)} : n \in 0..MaxFrameRows}

\* get_hourly_weather: SELECT * ... WHERE ds_location = :city
\*                     ORDER BY dt_date_record DESC LIMIT :limit
\* (rows of one dt_date_record in any order)
RECURSIVE InAnyOrder(_)
InAnyOrder(S) ==
    IF S = {} THEN <<>>
    ELSE LET x == CHOOSE r \in S : TRUE IN <<x>> \o InAnyOrder(S \ {x})

RECURSIVE ORDER_BY_dt_date_record_DESC(_)
ORDER_BY_dt_date_record_DESC(S) ==
    IF S = {} THEN <<>>
    ELSE LET later(r)   == {q \in S : q.target > r.target}
             earlier(r) == {q \in S : q.target < r.target}
             half  == Cardinality(S) \div 2
             pivot == CHOOSE r \in S : /\ Cardinality(later(r)) <= half
                                       /\ Cardinality(earlier(r)) <= half
         IN  ORDER_BY_dt_date_record_DESC(later(pivot))
               \o InAnyOrder({q \in S : q.target = pivot.target})
               \o ORDER_BY_dt_date_record_DESC(earlier(pivot))

HourlyQuery(W, city, days) ==
    LET limit == days * HoursPerDay
    IN  Limit(ORDER_BY_dt_date_record_DESC({r \in W : r.loc = city}), limit)

\* result.to_pandas(): the rows as a frame
HourlyFrame(rows) ==
    [dt_date_record |-> Column(AWARE_UTC, [i \in 1..Len(rows) |-> Timestamp(rows[i].target, <<0>>)]),
     nr_temperature_2m |-> Column(FLOAT, [i \in 1..Len(rows) |-> Number(rows[i].val)])]

NoTransform ==
    /\ transform = ""
    /\ input_frame = <<>> /\ caller_frame = <<>> /\ working_frame = <<>>
    /\ displayed = <<>>
    /\ transform_raised = FALSE

\* One call of a transform on the frame at hand.
Call(name, o) ==
    /\ transform' = name
    /\ caller_frame' = o.caller
    /\ working_frame' = o.working
    /\ displayed' = o.displayed
    /\ transform_raised' = o.raised
    /\ UNCHANGED <<input_frame, qvars, cvars, bvars, vvars>>

call_create_temperature_forecast_chart ==
    /\ transform = ""
    /\ "forecast_time" \in DOMAIN input_frame
    /\ Call("create_temperature_forecast_chart",
            ChartTransform(input_frame, "forecast_time", "forecast_time_vn"))

call_create_rain_probability_gauge ==
    /\ transform = ""
    /\ "forecast_date" \in DOMAIN input_frame
    /\ Call("create_rain_probability_gauge", GaugeTransform(input_frame))

call_create_comparison_chart ==
    /\ transform = ""
    /\ "actual_temperature" \in DOMAIN input_frame
    /\ Call("create_comparison_chart", ChartTransform(input_frame, "date", "date_vn"))

call_create_multi_city_comparison ==
    /\ transform = ""
    /\ "date" \in DOMAIN input_frame
    /\ "nr_temperature_2m" \in DOMAIN input_frame
    /\ Call("create_multi_city_comparison", MultiCityTransform(input_frame))

daily_view_chart ==
    /\ transform = ""
    /\ "dt_date_record" \in DOMAIN input_frame
    /\ Call("daily view", DailyViewTransform(input_frame))

hourly_view_chart ==
    /\ transform = ""
    /\ "dt_date_record" \in DOMAIN input_frame
    /\ Call("hourly view", HourlyViewTransform(input_frame))

rain_view_detail ==
    /\ transform = ""
    /\ "model_run_time" \in DOMAIN input_frame
    /\ Call("rain view", RainDetailTransform(input_frame))

\* main, hourly view: df = get_hourly_weather(db_city, days=days)
fetch_hourly_weather ==
    /\ transform = ""
    /\ input_frame = <<>>
    /\ \E city \in {"Ha Noi City"}, days \in Slider :
          LET df == HourlyFrame(HourlyQuery(fact_vn_weather_hourly, city, days))
          IN  /\ input_frame' = df
              /\ caller_frame' = df
              /\ qfn' = "get_hourly_weather" /\ qcity' = city /\ qdays' = days
    /\ UNCHANGED <<lstm_weather_24h, lstm_rain_daily, fact_vn_weather_hourly,
                   qnow, qtz, qres, cvars, bvars, vvars,
                   transform, working_frame, displayed, transform_raised>>

comparison_view_metrics ==
    /\ transform = ""
    /\ "actual_temperature" \in DOMAIN input_frame
    /\ Call("comparison view", ComparisonMetrics(input_frame))

----------------------------------------------------------------------------
(* Specification of the query layer: the tables fill up row by row (the     *)
(* upstream jobs are outside the repository) and the queries run at any     *)
(* time against what is stored.                                             *)

\* No query result is at hand (none was run since the tables last changed).
NoQuery ==
    /\ qfn = "none" /\ qcity = "" /\ qdays = 0 /\ qnow = 0 /\ qtz = 0
    /\ qres = <<>>

\* A change of the tables leaves no result at hand.
DiscardResult ==
    /\ qfn' = "none" /\ qcity' = "" /\ qdays' = 0 /\ qnow' = 0 /\ qtz' = 0
    /\ qres' = <<>>

EmptyTables ==
    /\ lstm_weather_24h = {}
    /\ lstm_rain_daily = {}
    /\ fact_vn_weather_hourly = {}

InitQ ==
    /\ EmptyTables
    /\ NoQuery
    /\ ColdCache
    /\ NoBanding
    /\ NotRun
    /\ NoTransform

StoreForecast ==
    /\ StoredRows < MaxRows
    /\ \E r \in StorableForecasts \ lstm_weather_24h :
          lstm_weather_24h' = lstm_weather_24h \cup {r}
    /\ UNCHANGED <<lstm_rain_daily, fact_vn_weather_hourly, cvars, bvars, vvars, tvars>>
    /\ DiscardResult

StoreRainForecast ==
    /\ StoredRows < MaxRows
    /\ \E r \in StorableRainForecasts \ lstm_rain_daily :
          lstm_rain_daily' = lstm_rain_daily \cup {r}
    /\ UNCHANGED <<lstm_weather_24h, fact_vn_weather_hourly, cvars, bvars, vvars, tvars>>
    /\ DiscardResult

StoreObservation ==
    /\ StoredRows < MaxRows
    /\ \E r \in StorableObservations \ fact_vn_weather_hourly :
          fact_vn_weather_hourly' = fact_vn_weather_hourly \cup {r}
    /\ UNCHANGED <<lstm_weather_24h, lstm_rain_daily, cvars, bvars, vvars, tvars>>
    /\ DiscardResult

get_temperature_forecast_24h_query ==
    /\ \E city \in Range(CITIES), now \in QueryTimes :
        \E res \in Forecast24hQuery(lstm_weather_24h, city, now) :
            /\ qfn' = "get_temperature_forecast_24h"
            /\ qcity' = city /\ qdays' = 0 /\ qnow' = now /\ qtz' = 0
            /\ qres' = res
    /\ UNCHANGED <<lstm_weather_24h, lstm_rain_daily, fact_vn_weather_hourly, cvars, bvars, vvars, tvars>>

get_rain_probability_today_query ==
    /\ \E city \in Range(CITIES), now \in RainQueryTimes, tz \in SessionTZ :
        \E res \in RainQuery(lstm_rain_daily, city, now, tz) :
            /\ qfn' = "get_rain_probability_today"
            /\ qcity' = city /\ qdays' = 0 /\ qnow' = now /\ qtz' = tz
            /\ qres' = res
    /\ UNCHANGED <<lstm_weather_24h, lstm_rain_daily, fact_vn_weather_hourly, cvars, bvars, vvars, tvars>>

get_temperature_comparison_query ==
    /\ \E city \in Range(CITIES), days \in QueryDays :
        \E res \in ComparisonQuery(lstm_weather_24h, fact_vn_weather_hourly,
                                   city, days) :
            /\ qfn' = "get_temperature_comparison"
            /\ qcity' = city /\ qdays' = days /\ qnow' = 0 /\ qtz' = 0
            /\ qres' = res
    /\ UNCHANGED <<lstm_weather_24h, lstm_rain_daily, fact_vn_weather_hourly, cvars, bvars, vvars, tvars>>

NextQ ==
    \/ StoreForecast
    \/ StoreRainForecast
    \/ StoreObservation
    \/ get_temperature_forecast_24h_query
    \/ get_rain_probability_today_query
    \/ get_temperature_comparison_query

SpecQuery == InitQ /\ [][NextQ]_vars

\* Specification of the 24h-forecast query over whole tables: the table holds
\* one first-run row for each of the next n hours, a later run for some of
\* them, and may hold rows of another city; enough rows for the LIMIT to cut.
RerunTargets == {0, 1, LIMIT_FORECAST_24H + 1}

ForecastBatch(n, reruns, others) ==
    {[target |-> t, loc |-> "Ha Noi City", run |-> 1, val |-> 20] : t \in 0..(n - 1)}
      \cup {[target |-> t, loc |-> "Ha Noi City", run |-> 2, val |-> 22] :
                t \in reruns \cap 0..(n - 1)}
      \cup (IF others
            THEN {[target |-> t, loc |-> "Da Nang City", run |-> 1, val |-> 20] : t \in {0, 1}}
            ELSE {})

InitForecast24h ==
    /\ \E n \in 0..MaxBatch, reruns \in SUBSET RerunTargets, others \in BOOLEAN :
          lstm_weather_24h = ForecastBatch(n, reruns, others)
    /\ lstm_rain_daily = {}
    /\ fact_vn_weather_hourly = {}
    /\ NoQuery
    /\ ColdCache
    /\ NoBanding
    /\ NotRun
    /\ NoTransform

NextForecast24h == get_temperature_forecast_24h_query

SpecForecast24h == InitForecast24h /\ [][NextForecast24h]_vars

\* Specification of the cache layer: fetch calls, passing time, new data.
InitCache ==
    /\ ColdCache
    /\ EmptyTables
    /\ NoQuery
    /\ NoBanding
    /\ NotRun
    /\ NoTransform

NextCache ==
    \/ get_daily_weather
    \/ get_hourly_weather
    \/ get_temperature_forecast_24h
    \/ get_rain_probability_today
    \/ get_temperature_comparison
    \/ Tick

SpecCache == InitCache /\ [][NextCache]_vars

\* Specification of the banding: any stored probability, banded by the gauge
\* (home view) or by the rain-probability view, which shows both.
InitBand ==
    /\ rain_prob_raw \in 0..ProbScale
    /\ gauge_label = ""
    /\ metric_message = <<"", "">>
    /\ EmptyTables /\ NoQuery
    /\ ColdCache
    /\ NotRun
    /\ NoTransform

BandInGauge ==
    /\ gauge_label' = GaugeLabel(rain_prob_raw)
    /\ metric_message' = <<"", "">>
    /\ UNCHANGED <<rain_prob_raw, qvars, cvars, vvars, tvars>>

BandInRainView ==
    /\ metric_message' = RainMessage(rain_prob_raw)
    /\ gauge_label' = GaugeLabel(rain_prob_raw)
    /\ UNCHANGED <<rain_prob_raw, qvars, cvars, vvars, tvars>>

NextBand ==
    \/ BandInGauge
    \/ BandInRainView

SpecBand == InitBand /\ [][NextBand]_vars

\* Specification of the views: one run of main() from a blank page, for any
\* inputs of the sidebar and any outcome of the fetches it makes.
InitView ==
    /\ NotRun
    /\ NoTransform
    /\ EmptyTables /\ NoQuery
    /\ ColdCache
    /\ NoBanding

NextView ==
    \/ MainHome
    \/ MainDaily
    \/ MainHourly
    \/ MainForecast24h
    \/ MainRain
    \/ MainComparison

SpecView == InitView /\ [][NextView]_vars

\* Specification of the view transforms: one call of one transform on any of
\* the frames.
InitTransform ==
    /\ NotRun
    /\ EmptyTables /\ NoQuery
    /\ ColdCache
    /\ NoBanding
    /\ transform = ""
    /\ input_frame \in ForecastFrames \cup RainFrames \cup ComparisonFrames
                         \cup ObservationFrames \cup CityFrames
    /\ caller_frame = input_frame
    /\ working_frame = <<>>
    /\ displayed = <<>>
    /\ transform_raised = FALSE

NextTransform ==
    \/ call_create_temperature_forecast_chart
    \/ call_create_rain_probability_gauge
    \/ call_create_comparison_chart
    \/ call_create_multi_city_comparison
    \/ daily_view_chart
    \/ hourly_view_chart
    \/ rain_view_detail
    \/ comparison_view_metrics

SpecTransform == InitTransform /\ [][NextTransform]_vars

\* Specification of the hourly view over whole tables: the table holds one
\* row for each of its first m hours, the view fetches the days * 24 most
\* recent and charts them.
MaxHours == 200

TableHours == {0, HoursPerDay, CHART_HEAD, CHART_HEAD + 1, MaxHours}

HourlyBatch(m) ==
    {[target |-> t, loc |-> "Ha Noi City", val |-> 20] : t \in 0..(m - 1)}
      \cup {[target |-> 0, loc |-> "Da Nang City", val |-> 20]}

InitHourly ==
    /\ NotRun
    /\ NoTransform
    /\ lstm_weather_24h = {} /\ lstm_rain_daily = {}
    /\ \E m \in TableHours : fact_vn_weather_hourly = HourlyBatch(m)
    /\ NoQuery
    /\ ColdCache
    /\ NoBanding

NextHourly ==
    \/ fetch_hourly_weather
    \/ hourly_view_chart

SpecHourly == InitHourly /\ [][NextHourly]_vars

----------------------------------------------------------------------------
(* Claims about the query layer *)

Rows == 1..Len(qres)

\* The stored forecast row (target t, location l, run, value) is of the
\* latest model run stored for (t, l) in table T.
IsLatestStored(T, t, l, run, val) ==
    /\ [target |-> t, loc |-> l, run |-> run, val |-> val] \in T
    /\ \A q \in T : (q.target = t /\ q.loc = l) => q.run <= run

Forecast24hDeduplicated ==
    qfn = "get_temperature_forecast_24h" =>
        \A i \in Rows :
            /\ \A j \in Rows :
                 (qres[j].forecast_time = qres[i].forecast_time
                    /\ qres[j].location = qres[i].location) => j = i
            /\ IsLatestStored(lstm_weather_24h, qres[i].forecast_time,
                              qres[i].location, qres[i].model_run_time,
                              qres[i].predicted_temperature)

RainDeduplicated ==
    qfn = "get_rain_probability_today" =>
        \A i \in Rows :
            /\ \A j \in Rows :
                 (qres[j].forecast_date = qres[i].forecast_date
                    /\ qres[j].location = qres[i].location) => j = i
            /\ IsLatestStored(lstm_rain_daily, qres[i].forecast_date,
                              qres[i].location, qres[i].model_run_time,
                              qres[i].rain_probability)

\* The comparison result has no model-run column: a row is of the latest run
\* when its predicted value is that of a stored latest-run row of its pair.
ComparisonFromLatestRun ==
    qfn = "get_temperature_comparison" =>
        \A i \in Rows :
            \E run \in ModelRuns :
                IsLatestStored(lstm_weather_24h, qres[i].date, qres[i].location,
                               run, qres[i].predicted_temperature)

SamePair(i) ==
    {j \in Rows : qres[j].date = qres[i].date /\ qres[j].location = qres[i].location}

ObservationsOf(i) ==
    {w \in fact_vn_weather_hourly :
        w.target = qres[i].date /\ w.loc = qres[i].location}

\* C1 (as stated): in the results of get_temperature_forecast_24h,
\* get_rain_probability_today and get_temperature_comparison every (target,
\* location) pair present appears in exactly one row, and that row is of the
\* maximum model-run time stored for the pair.
C1_ExactlyOneRowPerPair ==
    /\ Forecast24hDeduplicated
    /\ RainDeduplicated
    /\ ComparisonFromLatestRun
    /\ qfn = "get_temperature_comparison" =>
          \A i \in Rows : SamePair(i) = {i}

\* C1 (amended): the 24h-forecast and rain results hold each pair in exactly
\* one row, of the maximum model-run time stored for it; the comparison result
\* holds only latest-run predictions, and each pair once per observation row
\* stored for that instant and location (never more, and exactly that many
\* when the LIMIT did not cut the result).
C1_LatestRunOnly ==
    /\ Forecast24hDeduplicated
    /\ RainDeduplicated
    /\ ComparisonFromLatestRun
    /\ qfn = "get_temperature_comparison" =>
          \A i \in Rows :
              /\ Cardinality(SamePair(i)) <= Cardinality(ObservationsOf(i))
              /\ Len(qres) < qdays * HoursPerDay =>
                    Cardinality(SamePair(i)) = Cardinality(ObservationsOf(i))

\* C1 witness: a comparison result holds a pair for which a superseded model
\* run is stored as well.
C1_Witness ==
    /\ qfn = "get_temperature_comparison"
    /\ Len(qres) >= 1
    /\ \E r \in lstm_weather_24h, q \in lstm_weather_24h :
          /\ r.target = qres[1].date /\ r.loc = qres[1].location
          /\ q.target = r.target /\ q.loc = r.loc /\ q.run < r.run
          /\ q.val # r.val /\ r.val = qres[1].predicted_temperature

\* Calendar day of an instant in the display time zone (UTC+7).
DisplayDate(ts) == (ts + VIETNAM_TZ) \div HoursPerDay

\* C10 (as stated): get_rain_probability_today returns the first at most 5
\* rows, in ascending forecast-date order, of the latest-run rows of the city
\* whose forecast date is on or after the current date, both dates taken in
\* the display time zone.
C10_RainFromTodayInDisplayZone ==
    qfn = "get_rain_probability_today" =>
        /\ RainDeduplicated
        /\ Len(qres) <= LIMIT_RAIN
        /\ \A i \in Rows :
              /\ qres[i].location = qcity
              /\ DisplayDate(qres[i].forecast_date) >= DisplayDate(qnow)
        /\ \A i, j \in Rows :
              i < j => qres[i].forecast_date < qres[j].forecast_date
        /\ \A r \in lstm_rain_daily :
              (r.loc = qcity /\ DisplayDate(r.target) >= DisplayDate(qnow)) =>
                  \/ \E i \in Rows : qres[i].forecast_date = r.target
                  \/ /\ Len(qres) = LIMIT_RAIN
                     /\ qres[LIMIT_RAIN].forecast_date < r.target

\* The target instants stored for the queried city at or after the instant of
\* the query.
EligibleTargets ==
    {r.target : r \in {q \in lstm_weather_24h : q.loc = qcity /\ q.target >= qnow}}

\* C12: get_temperature_forecast_24h returns the first at most 24 rows, in
\* ascending order of target instant, of the latest-run rows of the requested
\* city whose target instant is at or after the current instant: no past
\* target, no more than 24 rows, target instants strictly increasing, and no
\* eligible target left out that is earlier than one returned.
C12_First24FutureLatestRunRows ==
    qfn = "get_temperature_forecast_24h" =>
        /\ Len(qres) <= 24
        /\ Len(qres) = IF Cardinality(EligibleTargets) <= 24
                       THEN Cardinality(EligibleTargets) ELSE 24
        /\ \A i \in Rows :
              /\ qres[i].location = qcity
              /\ qres[i].forecast_time >= qnow
              /\ IsLatestStored(lstm_weather_24h, qres[i].forecast_time,
                                qres[i].location, qres[i].model_run_time,
                                qres[i].predicted_temperature)
              /\ \A j \in Rows : i < j => qres[i].forecast_time < qres[j].forecast_time
        /\ \A t \in EligibleTargets :
              (\A i \in Rows : qres[i].forecast_time # t)
                  => \A i \in Rows : qres[i].forecast_time < t

\* C12 witness: a table with a past target, a rerun target and more than 24
\* eligible targets, of which 24 are returned, the rerun one from its later run.
C12_Witness ==
    /\ qfn = "get_temperature_forecast_24h"
    /\ qnow = 1
    /\ \E r \in lstm_weather_24h : r.loc = qcity /\ r.target < qnow
    /\ Cardinality(EligibleTargets) > 24
    /\ Len(qres) = 24
    /\ qres[1].forecast_time = 1 /\ qres[1].model_run_time = 2
    /\ qres[24].forecast_time = 24

----------------------------------------------------------------------------
(* Claims about the cache layer *)

Called == call.outcome # "none"
Age(f) == call.at - f.at

\* A returned result is the answer to the call's own query.
AnswersOwnKey ==
    call.outcome \in {"hit", "miss"} =>
        <<call.result[1], call.result[2], call.result[3]>> = call.key

C8_ConnectionReleasedOnEveryPath ==
    /\ open_connections = 0
    /\ call.outcome \in {"miss", "raised"} =>
          /\ call.connects <= 1
          /\ call.executes <= 1
          /\ call.closes = call.connects

----------------------------------------------------------------------------
(* Claims about the banding *)

\* The band a label or a message stands for.
BandOfLabel(l) ==
    CASE l = "It Kha Nang Mua"     -> "low"
      [] l = "Co The Mua"          -> "possible"
      [] l = "Kha Nang Mua Cao"    -> "high"
      [] l = "Rat Co Kha Nang Mua" -> "very high"
      [] OTHER -> "none"

BandOfMessage(m) ==
    CASE m = <<"info", "It kha nang mua - Thoi tiet kho rao">>       -> "low"
      [] m = <<"warning", "Co the mua - Nen mang theo o">>           -> "possible"
      [] m = <<"warning", "Kha nang mua cao - Nen mang theo o">>     -> "high"
      [] m = <<"error", "Rat co kha nang mua - Nho mang theo o!">>   -> "very high"
      [] OTHER -> "none"

\* The band the claim gives the scaled probability p = rain_prob_raw * 100.
ClaimedBand ==
    LET p100 == rain_prob_raw * 100      \* p, in units of 1/ProbScale percent
    IN  IF p100 < 30 * ProbScale THEN "low"
        ELSE IF 30 * ProbScale <= p100 /\ p100 < 50 * ProbScale THEN "possible"
        ELSE IF 50 * ProbScale <= p100 /\ p100 < 70 * ProbScale THEN "high"
        ELSE "very high"

\* C3: the band is a function of the scaled probability p with half-open
\* boundaries (p < 30 low, 30 <= p < 50 possible, 50 <= p < 70 high, p >= 70
\* very high), and the gauge and the metric message of the rain view give
\* every p the same band.
C3_HalfOpenBands ==
    /\ gauge_label # "" => BandOfLabel(gauge_label) = ClaimedBand
    /\ metric_message # <<"", "">> =>
          /\ BandOfMessage(metric_message) = ClaimedBand
          /\ BandOfMessage(metric_message) = BandOfLabel(gauge_label)

\* C3 witness: a probability of exactly 30 % banded "possible" in both places.
C3_Witness ==
    /\ rain_prob_raw * 100 = 30 * ProbScale
    /\ gauge_label = "Co The Mua"
    /\ metric_message = <<"warning", "Co the mua - Nen mang theo o">>

----------------------------------------------------------------------------
(* Claims about the views *)

Shown(e) == \E i \in 1..Len(out) : out[i] = e

HasRun == data_type # ""

\* A fetch of this run raised.
SomeFetchRaised == \E fn \in FetchFunctions : fetched[fn].status = "raised"

\* The frame the function returned to this run is non-empty / empty.
ReturnedRows(fn)  == fetched[fn].status = "returned" /\ fetched[fn].n > 0
ReturnedEmpty(fn) == fetched[fn].status = "returned" /\ fetched[fn].n = 0

\* The messages of the outer and of the inner except clause.
FailureMessages == {"Co loi xay ra", "Loi xu ly du lieu chi tiet"}
IsFailureMessage(e) == e.kind = "error" /\ e.text \in FailureMessages
IsDataSection(e) == e.kind \in {"chart", "gauge", "metric", "table"}

\* A 'no data' presentation: an info or a warning that says so.
NoDataTexts ==
    {"Dang tai du lieu du doan...", "Dang tai du lieu xac suat mua...",
     "Khong co du lieu cho thanh pho nay.",
     "Khong co du lieu du doan cho thanh pho nay.",
     "Khong co du lieu xac suat mua cho ngay hom nay.",
     "Khong co du lieu de so sanh cho thanh pho nay.",
     "Khong co du lieu du doan.", "Khong co du lieu xac suat mua.",
     "Khong co du lieu de so sanh."}
IsNoData(e) == e.kind \in {"info", "warning"} /\ e.text \in NoDataTexts

\* The section of a query in the page: from the heading rendered before its
\* fetch to the next heading or rule.
SectionHeading(fn) ==
    IF data_type = "Trang Chu"
    THEN CASE fn = "get_temperature_forecast_24h" -> El("subheader", "Du Doan Nhiet Do 24h")
           [] fn = "get_rain_probability_today"   -> El("subheader", "Xac Suat Mua Hom Nay")
           [] fn = "get_daily_weather"            -> El("subheader", "Thong Tin Tong Quan")
           [] OTHER                               -> El("subheader", "So Sanh Du Doan vs Thuc Te")
    ELSE out[4]

NoDataInSection(fn) ==
    \E i \in 1..Len(out) :
        /\ out[i] = SectionHeading(fn)
        /\ i < Len(out)
        /\ IsNoData(out[i + 1])

\* C4 (as stated): in every view, a query that returns zero rows gets an
\* explicit 'no data' presentation in its section of the page, and no
\* exception is raised; whatever the other queries of the view return.
C4_EmptyResultShowsNoData ==
    \A fn \in FetchFunctions :
        ReturnedEmpty(fn) =>
            /\ NoDataInSection(fn)
            /\ ~SomeFetchRaised => ~(\E i \in 1..Len(out) : IsFailureMessage(out[i]))

\* The cards of create_weather_metrics_cards and the columns each one is
\* computed from (any of the aliases, for the two that have aliases).
DailyCardSources ==
    { <<"Nhiet do trung binh", {"nr_temperature_2m_mean", "nr_temperature_2m"}>>,
      <<"Nhiet do cao nhat",   {"nr_temperature_2m_max"}>>,
      <<"Tong luong mua",      {"nr_rain_sum", "nr_precipitation_sum"}>>,
      <<"Do am trung binh",    {"nr_relative_humidity_2m_mean"}>> }
HourlyCardSources ==
    { <<"Nhiet Do TB",   {"nr_temperature_2m"}>>,
      <<"Do Am TB",      {"nr_humidity"}>>,
      <<"Toc Do Gio TB", {"nr_wind_speed"}>> }

CardsShowNotAvailable(df, sources) ==
    \A c \in sources :
        (c[2] \cap df.cols = {}) => Shown(Metric(c[1], "N/A", ""))

\* C5 (as stated): for every set of columns of a non-empty result and both
\* data types, a card of create_weather_metrics_cards whose source column is
\* absent shows 'N/A', never a value computed from another column or another
\* quantity in its place.
C5_AbsentColumnShowsNotAvailable ==
    /\ (data_type \in {"Trang Chu", "Thoi Tiet Hang Ngay"} /\ ReturnedRows("get_daily_weather"))
          => CardsShowNotAvailable(fetched["get_daily_weather"], DailyCardSources)
    /\ (data_type = "Thoi Tiet Hang Gio" /\ ReturnedRows("get_hourly_weather"))
          => CardsShowNotAvailable(fetched["get_hourly_weather"], HourlyCardSources)

\* The cards of a daily frame are on the page.
DailyCardsShown ==
    /\ data_type \in {"Trang Chu", "Thoi Tiet Hang Ngay"}
    /\ ReturnedRows("get_daily_weather")

\* C6: the daily temperature quantity resolves to the first alias present in
\* the fixed order (nr_temperature_2m_mean before nr_temperature_2m, and in
\* the chart of the daily view then nr_temperature_2m_max and
\* nr_temperature_2m_min); it is reported as unavailable (card 'N/A', warning
\* in place of the chart) exactly when no alias of the list is present, and
\* no error is raised for it.
C6_FirstAliasPresentWins ==
    DailyCardsShown =>
        LET cols == fetched["get_daily_weather"].cols
            mean == "nr_temperature_2m_mean" \in cols
            temp == "nr_temperature_2m" \in cols
            max  == "nr_temperature_2m_max" \in cols
            min  == "nr_temperature_2m_min" \in cols
            card(col) == Metric("Nhiet do trung binh", "mean", col)
            na   == Metric("Nhiet do trung binh", "N/A", "")
            chart(col) == Chart("Nhiet Do Hang Ngay", col)
            none == El("warning", "Khong tim thay cot nhiet do phu hop trong du lieu hang ngay.")
        IN  /\ Shown(card("nr_temperature_2m_mean")) <=> mean
            /\ Shown(card("nr_temperature_2m")) <=> (~mean /\ temp)
            /\ Shown(na) <=> (~mean /\ ~temp)
            /\ data_type = "Thoi Tiet Hang Ngay" =>
                  /\ Shown(chart("nr_temperature_2m_mean")) <=> mean
                  /\ Shown(chart("nr_temperature_2m")) <=> (~mean /\ temp)
                  /\ Shown(chart("nr_temperature_2m_max")) <=> (~mean /\ ~temp /\ max)
                  /\ Shown(chart("nr_temperature_2m_min")) <=> (~mean /\ ~temp /\ ~max /\ min)
                  /\ Shown(none) <=> (~mean /\ ~temp /\ ~max /\ ~min)
            /\ ~SomeFetchRaised => ~(\E i \in 1..Len(out) : IsFailureMessage(out[i]))

\* C6 witness: a daily result with nr_temperature_2m_mean and without
\* nr_temperature_2m, whose card and chart are of the *_mean column.
C6_Witness ==
    /\ data_type = "Thoi Tiet Hang Ngay"
    /\ ReturnedRows("get_daily_weather")
    /\ "nr_temperature_2m_mean" \in fetched["get_daily_weather"].cols
    /\ "nr_temperature_2m" \notin fetched["get_daily_weather"].cols
    /\ Shown(Metric("Nhiet do trung binh", "mean", "nr_temperature_2m_mean"))
    /\ Shown(Chart("Nhiet Do Hang Ngay", "nr_temperature_2m_mean"))

\* C7: in every view and for every city of the selectbox, the city argument
\* of every fetch call is CITIES[selected_city], the display name translated
\* once, and never a display name.
C7_FetchesReceiveLocationKey ==
    HasRun =>
        /\ fetch_calls # <<>>
        /\ \A i \in 1..Len(fetch_calls) :
              /\ fetch_calls[i].city = CITIES[selected_city]
              /\ fetch_calls[i].city \notin DOMAIN CITIES

\* C7 witness: the home view, all four of its fetches made for the location
\* key of the display name "Ho Chi Minh".
C7_Witness ==
    /\ data_type = "Trang Chu"
    /\ selected_city = "Ho Chi Minh"
    /\ Len(fetch_calls) = 4
    /\ \A i \in 1..4 : fetch_calls[i].city = "Ho Chi Minh City"

\* C9 (as stated): when a step of a view fails, the page shows a single
\* error message and none of the charts, metric cards and tables rendered
\* earlier in the same run.
C9_ErrorNeverBesideData ==
    LET failures == {i \in 1..Len(out) : IsFailureMessage(out[i])}
    IN  failures # {} =>
            /\ Cardinality(failures) = 1
            /\ ~(\E i \in 1..Len(out) : IsDataSection(out[i]))

----------------------------------------------------------------------------
(* Claims about the view transforms *)

Transformed == transform # ""

\* C11 (as stated): after any of the view transforms the caller's frame is
\* as it was passed in, and in the frame the transform worked on every
\* fetched column still holds its fetched values, converted and scaled
\* values being stored under new names only.
C11_RawValuesNeverOverwritten ==
    Transformed =>
        /\ caller_frame = input_frame
        /\ \A c \in DOMAIN input_frame :
              /\ c \in DOMAIN working_frame
              /\ working_frame[c] = input_frame[c]

\* The hour a fetched time cell denotes on the clock of UTC+7, a cell that
\* names no zone being a UTC instant.
HourInUTC7(raw) ==
    (IF raw.zone = <<>> THEN raw.val ELSE raw.val - raw.zone[1]) + 7

ShownRight(d) ==
    LET raw == input_frame[d.col].cells[d.row]
    IN  IF raw.form \in {"text", "timestamp"}
        THEN d.shown.form \in {"text", "timestamp"} /\ d.shown.val = HourInUTC7(raw)
        ELSE d.shown.form = "missing"

\* The fetched time columns hold no missing value: every cell is a time,
\* with or without a zone, or a string that cannot be parsed.
NoTimeMissing ==
    \A c \in DOMAIN input_frame \cap
             {"forecast_time", "forecast_date", "date", "dt_date_record", "model_run_time"} :
        \A i \in 1..Len(input_frame[c].cells) : input_frame[c].cells[i].form # "missing"

\* C13 (as stated): in every view transform a time that names no zone is
\* taken as a UTC instant and shown as that instant on the clock of UTC+7
\* (the raw hour plus 7, rolling over the date), and a time that cannot be
\* parsed is shown as a missing value in its row, the transform going on
\* with the other rows instead of raising.
C13_TimesShownInUTC7 ==
    Transformed =>
        /\ NoTimeMissing => ~transform_raised
        /\ \A i \in 1..Len(displayed) :
              displayed[i].col \in DOMAIN input_frame => ShownRight(displayed[i])

\* What does hold of every transform: the times it shows are right.
ShownTimesRight ==
    Transformed =>
        \A i \in 1..Len(displayed) :
            displayed[i].col \in DOMAIN input_frame => ShownRight(displayed[i])

\* The value shown for a metric, <<>> when it is not shown.
ShownFor(name) ==
    LET at == {i \in 1..Len(displayed) : displayed[i].col = name}
    IN  IF at = {} THEN <<>> ELSE <<displayed[CHOOSE i \in at : TRUE].shown.val>>

\* The sum over the rows of the fetched comparison frame of f(predicted - actual).
RECURSIVE SumAbsErrors(_), SumSquaredErrors(_)
SumAbsErrors(n) ==
    IF n = 0 THEN 0
    ELSE LET d == input_frame["predicted_temperature"].cells[n].val
                    - input_frame["actual_temperature"].cells[n].val
         IN  (IF d < 0 THEN -d ELSE d) + SumAbsErrors(n - 1)
SumSquaredErrors(n) ==
    IF n = 0 THEN 0
    ELSE LET d == input_frame["predicted_temperature"].cells[n].val
                    - input_frame["actual_temperature"].cells[n].val
         IN  d * d + SumSquaredErrors(n - 1)

\* C14: in the comparison view, for a non-empty series with both columns the
\* MAE shown is the mean of |predicted - actual| over the rows and the RMSE
\* shown is the square root of the mean of (predicted - actual)^2, each to
\* the nearest hundredth as formatted; for an empty series neither metric is
\* shown at all, a warning being shown in their place.
C14_MaeRmseOverRows ==
    transform = "comparison view" =>
        LET n == Len(input_frame["date"].cells)
        IN  IF n = 0
            THEN /\ ShownFor("MAE") = <<>> /\ ShownFor("RMSE") = <<>>
                 /\ ShownFor("warning") # <<>>
            ELSE /\ ShownFor("MAE") # <<>> /\ ShownFor("RMSE") # <<>>
                 /\ LET mae == ShownFor("MAE")[1]
                        rmse == ShownFor("RMSE")[1]
                    IN  \* |mae/100 - sum/n| <= 1/200
                        /\ 2 * (mae * n - 100 * SumAbsErrors(n)) <= n
                        /\ 2 * (100 * SumAbsErrors(n) - mae * n) <= n
                        \* |rmse/100 - sqrt(sumsq/n)| <= 1/200
                        /\ rmse >= 0
                        /\ (rmse = 0 \/ (2 * rmse - 1) * (2 * rmse - 1) * n
                                            <= 40000 * SumSquaredErrors(n))
                        /\ 40000 * SumSquaredErrors(n) <= (2 * rmse + 1) * (2 * rmse + 1) * n

\* C14 witness: the pairs (20,22), (25,24): MAE 1.50, mean squared error
\* 5/2 = 2.5, RMSE 1.58.
C14_Witness ==
    /\ transform = "comparison view"
    /\ Len(input_frame["date"].cells) = 2
    /\ input_frame["predicted_temperature"].cells = <<Number(20), Number(25)>>
    /\ input_frame["actual_temperature"].cells = <<Number(22), Number(24)>>
    /\ SumSquaredErrors(2) = 5
    /\ ShownFor("MAE") = <<150>>
    /\ ShownFor("RMSE") = <<158>>

\* C15 (as stated): in the hourly view, for every day window 1..30 and every
\* fetched result (most recent row first), the temperature chart plots at
\* most 168 rows, they are the 168 most recent rows of the fetched result
\* (all of them when fewer were fetched), and they are in ascending time order.
C15_ChartPlotsMostRecent168 ==
    (transform = "hourly view" /\ qfn = "get_hourly_weather") =>
        LET n == Len(input_frame["dt_date_record"].cells)
            k == IF n <= 168 THEN n ELSE 168
        IN  /\ Len(displayed) = k
            /\ {displayed[i].row : i \in 1..Len(displayed)} = 1..k
            /\ \A i \in 1..(Len(displayed) - 1) :
                  displayed[i].shown.val < displayed[i + 1].shown.val

====
